---- MODULE Spec2Model ----
(***************************************************************************)
(* Hash-tree-root construction of dynssz (treeroot.go).                    *)
(*                                                                         *)
(* The three mutually recursive functions buildRootFromType,               *)
(* buildRootFromStruct and buildRootFromSlice are translated to recursive  *)
(* operators that thread the Hasher through the traversal.  reflect.Type   *)
(* and reflect.Value are records; the Hasher, the compatibility oracle,    *)
(* the tag readers and calculateLimit live outside treeroot.go and are     *)
(* modelled from their contracts.  Hashing is symbolic: a root is a term   *)
(* over the chunks it was computed from.                                   *)
(***************************************************************************)
EXTENDS Integers, Sequences, FiniteSets, TLC

\* ------------------------------------------------------------------ bounds
MaxVal == 1         \* scalar values range over 0..MaxVal
MaxSeqLen == 2      \* slices hold 0..MaxSeqLen elements
MaxHint == 2        \* max-size hints range over 0..MaxHint

\* ------------------------------------------------- reflect.Type as a record
NoType == [kind |-> "Invalid"]
NoCompat == [isHashRoot |-> FALSE, hasDynamicSpecSizes |-> FALSE,
             hasDynamicSpecMax |-> FALSE, err |-> FALSE]
FastCompat == [isHashRoot |-> TRUE, hasDynamicSpecSizes |-> FALSE,
               hasDynamicSpecMax |-> FALSE, err |-> FALSE]

\* kind, Name(), Elem(), the declared fields, the array length, the verdict the
\* compatibility oracle gives for the type, and whether a pointer to the value
\* implements fastsszHashRoot ("none"), with a HashTreeRoot that succeeds
\* ("ok") or reports a failure ("fail").
T(kind, name, elem, fields, len) ==
    [kind |-> kind, name |-> name, elem |-> elem, fields |-> fields,
     len |-> len, compat |-> NoCompat, hashRoot |-> "none"]

ScalarKinds == {"Bool", "Uint8", "Uint16", "Uint32", "Uint64"}
Scalar(kind) == T(kind, "", NoType, <<>>, 0)
BoolT == Scalar("Bool")
U8 == Scalar("Uint8")
U16 == Scalar("Uint16")
U32 == Scalar("Uint32")
U64 == Scalar("Uint64")
F64 == Scalar("Float64")
ArrayOf(e, n) == T("Array", "", e, <<>>, n)
SliceOf(e) == T("Slice", "", e, <<>>, 0)
PtrTo(e) == T("Ptr", "", e, <<>>, 0)
StructOf(name, fields) == T("Struct", name, NoType, fields, 0)
\* reflect.StructField with the results of its two tag readers
Field(t, maxSizeHints) ==
    [type |-> t, sizeHints |-> <<>>, maxSizeHints |-> maxSizeHints, tagErr |-> FALSE]
Precompiled(t) == [t EXCEPT !.compat = FastCompat, !.hashRoot = "ok"]

byteType == U8
Kind(t) == t.kind
Elem(t) == t.elem
ByteSize(kind) ==
    CASE kind = "Bool" -> 1 [] kind = "Uint8" -> 1 [] kind = "Uint16" -> 2
      [] kind = "Uint32" -> 4 [] kind = "Uint64" -> 8

\* strings.Contains(sourceType.Name(), "Bitlist"): the names used below contain
\* it exactly when they are one of BitlistNames
BitlistNames == {"Bitlist", "MyBitlist"}
NameContainsBitlist(t) == t.name \in BitlistNames

\* ------------------------------------------------ reflect.Value as a record
IntV(n) == [int |-> n]
SeqV(s) == [seq |-> s]
PtrV(v) == [ptr |-> v]
NilPtr == [nilptr |-> TRUE]
ZeroValue == [zero |-> TRUE]        \* the invalid reflect.Value{}
IsZero(v) == v = ZeroValue
IsNilPtr(v) == v = NilPtr
\* Value.Elem() of a pointer: the pointee, or the zero Value for a nil pointer
ValueElem(v) == IF IsNilPtr(v) \/ IsZero(v) THEN ZeroValue ELSE v.ptr
\* Value.Bytes() panics unless the value is a byte slice or byte array
CanBytes(t, v) == /\ ~IsZero(v)
                  /\ Kind(t) \in {"Slice", "Array"}
                  /\ Kind(Elem(t)) = "Uint8"
Bytes(v) == [i \in 1..Len(v.seq) |-> v.seq[i].int]

\* ------------------------------------------------------- symbolic chunks
RECURSIVE StripZeros(_)
StripZeros(b) ==
    IF b = <<>> THEN b
    ELSE IF b[Len(b)] = 0 THEN StripZeros(SubSeq(b, 1, Len(b) - 1)) ELSE b
\* a 32-byte chunk of plain bytes, written without its trailing zero bytes
RawChunk(b) == [raw |-> StripZeros(b)]
ZeroChunk == RawChunk(<<>>)
Zeros(n) == [i \in 1..n |-> 0]
\* little-endian encoding of v in n bytes
RECURSIVE LittleEndian(_, _)
LittleEndian(v, n) ==
    IF n = 0 THEN <<>> ELSE <<v % 256>> \o LittleEndian(v \div 256, n - 1)

RECURSIVE StripZeroChunks(_)
StripZeroChunks(cs) ==
    IF cs = <<>> THEN cs
    ELSE IF cs[Len(cs)] = ZeroChunk THEN StripZeroChunks(SubSeq(cs, 1, Len(cs) - 1))
    ELSE cs
RECURSIVE getDepth(_)
getDepth(d) == IF d <= 1 THEN 0 ELSE 1 + getDepth((d + 1) \div 2)

\* Balanced binary Merkle root of the chunks, zero-padded to the capacity
\* `limit` (0: the chunk count itself).  "panic" when count exceeds limit.
merkleizeImpl(input, limit) ==
    LET count == Len(input)
        lim == IF limit = 0 THEN count ELSE limit
    IN  IF limit # 0 /\ count > limit THEN [panic |-> TRUE]
        ELSE IF lim = 0 THEN ZeroChunk
        ELSE IF lim = 1 THEN (IF count = 1 THEN input[1] ELSE ZeroChunk)
        ELSE [merkle |-> StripZeroChunks(input), depth |-> getDepth(lim)]
mixin(root, num) == [mixin |-> root, num |-> num]

RECURSIVE Pack(_)
Pack(b) ==
    IF b = <<>> THEN <<>>
    ELSE IF Len(b) <= 32 THEN <<RawChunk(b)>>
    ELSE <<RawChunk(SubSeq(b, 1, 32))>> \o Pack(SubSeq(b, 33, Len(b)))

\* ------------------------------------------------------------- the Hasher
\* chunks: the complete 32-byte chunks of buf; tail: the bytes after the last
\* complete chunk; err: the error (or "panic") that ended the traversal;
\* calls: history of the calls the traversal made.
NewHasher == [chunks |-> <<>>, tail |-> <<>>, calls |-> <<>>, err |-> "nil"]
Ok(hh) == hh.err = "nil"
Fail(hh, e) == [hh EXCEPT !.err = e]
Logged(hh, ev) == [hh EXCEPT !.calls = Append(@, ev)]
Index(hh) == 32 * Len(hh.chunks) + Len(hh.tail)

RECURSIVE Spill(_, _)
Spill(chunks, tail) ==
    IF Len(tail) < 32 THEN [chunks |-> chunks, tail |-> tail]
    ELSE Spill(Append(chunks, RawChunk(SubSeq(tail, 1, 32))),
               SubSeq(tail, 33, Len(tail)))
HasherAppend(hh, b) ==
    LET r == Spill(hh.chunks, hh.tail \o b)
    IN  [hh EXCEPT !.chunks = r.chunks, !.tail = r.tail]
FillUpTo32(hh) ==
    IF Len(hh.tail) = 0 THEN hh ELSE HasherAppend(hh, Zeros(32 - Len(hh.tail)))
AppendBytes32(hh, b) ==
    LET h1 == HasherAppend(hh, b)
    IN  IF Len(b) % 32 = 0 THEN h1 ELSE HasherAppend(h1, Zeros(32 - (Len(b) % 32)))
AppendUint64(hh, i) == HasherAppend(hh, LittleEndian(i, 8))
\* the chunks from byte position indx on, the tail zero-padded to a chunk
InputFrom(hh, indx) ==
    SubSeq(hh.chunks, (indx \div 32) + 1, Len(hh.chunks))
        \o (IF hh.tail = <<>> THEN <<>> ELSE <<RawChunk(hh.tail)>>)
ReplaceFrom(hh, indx, root) ==
    IF root = [panic |-> TRUE] THEN Fail(hh, "panic")
    ELSE [hh EXCEPT !.chunks = Append(SubSeq(hh.chunks, 1, indx \div 32), root),
                    !.tail = <<>>]
Merkleize(hh, indx) == ReplaceFrom(hh, indx, merkleizeImpl(InputFrom(hh, indx), 0))
MerkleizeWithMixin(hh, indx, num, limit) ==
    LET root == merkleizeImpl(InputFrom(hh, indx), limit)
    IN  ReplaceFrom(hh, indx, IF root = [panic |-> TRUE] THEN root ELSE mixin(root, num))
PutBytes(hh, b) ==
    IF Len(b) <= 32 THEN AppendBytes32(hh, b)
    ELSE Merkleize(AppendBytes32(hh, b), Index(hh))
\* PutBytes of the 32 bytes of a root
PutRoot(hh, root) == [hh EXCEPT !.chunks = Append(@, root)]
PutBool(hh, b) == AppendBytes32(hh, <<b>>)
PutUint8(hh, i) == AppendBytes32(hh, LittleEndian(i, 1))
PutUint16(hh, i) == AppendBytes32(hh, LittleEndian(i, 2))
PutUint32(hh, i) == AppendBytes32(hh, LittleEndian(i, 4))
PutUint64(hh, i) == AppendBytes32(hh, LittleEndian(i, 8))

\* Bitlist: the highest set bit of the last byte is the length sentinel.
RECURSIVE BitLen8(_)
BitLen8(b) == IF b = 0 THEN 0 ELSE 1 + BitLen8(b \div 2)
RECURSIVE Pow2(_)
Pow2(n) == IF n = 0 THEN 1 ELSE 2 * Pow2(n - 1)
BitlistSize(bb) ==
    IF bb = <<>> \/ bb[Len(bb)] = 0 THEN 0
    ELSE 8 * (Len(bb) - 1) + BitLen8(bb[Len(bb)]) - 1
BitlistContent(bb) ==
    IF bb = <<>> \/ bb[Len(bb)] = 0 THEN <<>>
    ELSE StripZeros([bb EXCEPT ![Len(bb)] = @ - Pow2(BitLen8(@) - 1)])
bitlistRoot(bb, maxSize) ==
    LET root == merkleizeImpl(Pack(BitlistContent(bb)), (maxSize + 255) \div 256)
    IN  IF root = [panic |-> TRUE] THEN root ELSE mixin(root, BitlistSize(bb))
PutBitlist(hh, bb, maxSize) ==
    LET root == bitlistRoot(bb, maxSize)
    IN  IF root = [panic |-> TRUE] THEN Fail(hh, "panic") ELSE PutRoot(hh, root)

\* chunks needed for maxCapacity items of `size` bytes
calculateLimit(maxCapacity, numItems, size) == (maxCapacity * size + 31) \div 32

\* --------------------------------------------- collaborators of treeroot.go
\* d.getFastsszHashCompatibility: the verdict of the oracle for the type
getFastsszHashCompatibility(sourceType, sizeHints, maxSizeHints) == sourceType.compat
\* d.getSszFieldSize and d.getSszMaxSizeTag: the hints the field's tags resolve to
getSszFieldSize(field) == [sizeHints |-> field.sizeHints, err |-> field.tagErr]
getSszMaxSizeTag(field) == [maxSizeHints |-> field.maxSizeHints, err |-> field.tagErr]

\* The SSZ hash tree root of a value: what a precompiled HashTreeRoot that
\* follows the SSZ rules returns for it.
RECURSIVE ValidSsz(_, _, _)
ValidSsz(t, v, mh) ==
    CASE Kind(t) = "Ptr" -> ~IsNilPtr(v) /\ ValidSsz(Elem(t), v.ptr, mh)
      [] NameContainsBitlist(t) ->
            /\ Kind(t) = "Slice" /\ Kind(Elem(t)) = "Uint8" /\ Len(mh) = 1
            /\ v.seq # <<>> /\ v.seq[Len(v.seq)].int # 0
            /\ BitlistSize(Bytes(v)) <= mh[1]
      [] Kind(t) \in ScalarKinds -> mh = <<>>
      [] Kind(t) = "Struct" ->
            /\ mh = <<>>
            /\ \A i \in 1..Len(t.fields) :
                  /\ ~t.fields[i].tagErr
                  /\ ValidSsz(t.fields[i].type, v.seq[i], t.fields[i].maxSizeHints)
      [] Kind(t) = "Array" ->
            /\ mh = <<>> /\ t.len > 0
            /\ \A i \in 1..Len(v.seq) : ValidSsz(Elem(t), v.seq[i], <<>>)
      [] Kind(t) = "Slice" ->
            /\ Len(mh) >= 1 /\ Len(v.seq) <= mh[1]
            /\ \A i \in 1..Len(v.seq) : ValidSsz(Elem(t), v.seq[i], Tail(mh))
      [] OTHER -> FALSE

RECURSIVE FlattenBytes(_)
FlattenBytes(ss) == IF ss = <<>> THEN <<>> ELSE Head(ss) \o FlattenBytes(Tail(ss))

RECURSIVE sszRoot(_, _, _)
sszRoot(t, v, mh) ==
    CASE Kind(t) = "Ptr" -> sszRoot(Elem(t), v.ptr, mh)
      [] NameContainsBitlist(t) -> bitlistRoot(Bytes(v), mh[1])
      [] Kind(t) \in ScalarKinds -> RawChunk(LittleEndian(v.int, ByteSize(Kind(t))))
      [] Kind(t) = "Struct" ->
            merkleizeImpl([i \in 1..Len(t.fields) |->
                sszRoot(t.fields[i].type, v.seq[i], t.fields[i].maxSizeHints)], 0)
      [] Kind(t) \in {"Array", "Slice"} ->
            LET basic == Kind(Elem(t)) \in ScalarKinds
                size == IF basic THEN ByteSize(Kind(Elem(t))) ELSE 0
                chunks ==
                    IF basic
                    THEN Pack(FlattenBytes([i \in 1..Len(v.seq) |->
                                LittleEndian(v.seq[i].int, size)]))
                    ELSE [i \in 1..Len(v.seq) |-> sszRoot(Elem(t), v.seq[i], Tail(mh))]
            IN  IF Kind(t) = "Array" THEN merkleizeImpl(chunks, 0)
                ELSE mixin(merkleizeImpl(chunks,
                              IF basic THEN (mh[1] * size + 31) \div 32 ELSE mh[1]),
                           Len(v.seq))

\* hasher.HashTreeRoot() of a value whose type has a precompiled routine
HashTreeRoot(t, v) ==
    IF ValidSsz(t, v, <<>>) THEN sszRoot(t, v, <<>>)
    ELSE [fastssz |-> <<t.name, v>>]

\* ------------------------------------------------------------ treeroot.go
\* history: the return of a traversal function, with the buffer on entry
Return(fn, entry, hh) ==
    Logged(hh, [op |-> "return", fn |-> fn, index |-> Index(entry),
                pre |-> entry.chunks, preTail |-> entry.tail,
                post |-> hh.chunks, postTail |-> hh.tail, err |-> hh.err])
\* history: a call of hh.Merkleize / hh.MerkleizeWithMixin by a traversal
\* function, with the number of bytes appended since indx
MerkleizeCall(hh, op, fn, indx, num, limit) ==
    Logged(hh, [op |-> op, by |-> fn, indx |-> indx, avail |-> Index(hh) - indx,
                num |-> num, limit |-> limit])

\* the decision with an "Int" forced onto the fast path whatever the verdict
useFastSszDecision_IntUnchecked(d, fastsszCompat, name) ==
    LET useFastSsz == /\ ~d.NoFastSsz
                      /\ fastsszCompat.isHashRoot
                      /\ ~fastsszCompat.hasDynamicSpecSizes
                      /\ ~fastsszCompat.hasDynamicSpecMax
    IN  IF ~useFastSsz /\ name = "Int" THEN TRUE ELSE useFastSsz
\* the decision without the uint256.Int hack of lines 29-32
useFastSszDecision_NoIntHack(d, fastsszCompat, name) ==
    /\ ~d.NoFastSsz
    /\ fastsszCompat.isHashRoot
    /\ ~fastsszCompat.hasDynamicSpecSizes
    /\ ~fastsszCompat.hasDynamicSpecMax

\* lines 28-32: the fast-path decision
useFastSszDecision(d, fastsszCompat, name) ==
    LET useFastSsz == /\ ~d.NoFastSsz
                      /\ fastsszCompat.isHashRoot
                      /\ ~fastsszCompat.hasDynamicSpecSizes
                      /\ ~fastsszCompat.hasDynamicSpecMax
    IN  IF /\ ~useFastSsz
           /\ fastsszCompat.isHashRoot
           /\ ~fastsszCompat.hasDynamicSpecSizes
           /\ ~fastsszCompat.hasDynamicSpecMax
           /\ name = "Int"
        THEN TRUE
        ELSE useFastSsz

\* the fast path failing, instead of demoting, on a value without the capability
fastPath_FailOnMissing(hh, sourceType, sourceValue, fastsszCompat) ==
    IF IsZero(sourceValue)
    THEN [hh |-> Fail(hh, "panic"), useFastSsz |-> TRUE]
    ELSE IF sourceType.hashRoot = "ok"
    THEN [hh |-> PutRoot(Logged(hh, [op |-> "HashTreeRoot", name |-> sourceType.name,
                                     compat |-> fastsszCompat]),
                         HashTreeRoot(sourceType, sourceValue)),
          useFastSsz |-> TRUE]
    ELSE [hh |-> Fail(hh, "PrecompiledHashFailed"), useFastSsz |-> TRUE]

\* lines 38-49: the fast path; useFastSsz is FALSE when the value does not
\* implement fastsszHashRoot
fastPath(hh, sourceType, sourceValue, fastsszCompat) ==
    IF IsZero(sourceValue)
    THEN [hh |-> Fail(hh, "panic"), useFastSsz |-> TRUE]   \* Addr() of the zero Value
    ELSE IF sourceType.hashRoot = "none"
    THEN [hh |-> hh, useFastSsz |-> FALSE]
    ELSE LET h1 == Logged(hh, [op |-> "HashTreeRoot", name |-> sourceType.name,
                               compat |-> fastsszCompat])
         IN  IF sourceType.hashRoot = "fail"
             THEN [hh |-> Fail(h1, "PrecompiledHashFailed"), useFastSsz |-> TRUE]
             ELSE [hh |-> PutRoot(h1, HashTreeRoot(sourceType, sourceValue)),
                   useFastSsz |-> TRUE]

\* lines 52-62: the bitlist hack
bitlistPath(hh, sourceType, sourceValue, maxSizeHints) ==
    IF ~CanBytes(sourceType, sourceValue) THEN Fail(hh, "panic")
    ELSE LET bytes == Bytes(sourceValue)
             maxSize == IF Len(maxSizeHints) > 0 THEN maxSizeHints[1]
                        ELSE Len(bytes) * 8
         IN  PutBitlist(hh, bytes, maxSize)

\* lines 83-92: the scalar kinds
putScalar(hh, kind, sourceValue) ==
    IF IsZero(sourceValue) THEN Fail(hh, "panic")
    ELSE CASE kind = "Bool" -> PutBool(hh, sourceValue.int)
           [] kind = "Uint8" -> PutUint8(hh, sourceValue.int)
           [] kind = "Uint16" -> PutUint16(hh, sourceValue.int)
           [] kind = "Uint32" -> PutUint32(hh, sourceValue.int)
           [] kind = "Uint64" -> PutUint64(hh, sourceValue.int)

\* the default case without its error
unknownType_Silent(hh) == hh

\* lines 93-94: the default case of the kind switch
unknownType(hh) == Fail(hh, "UnsupportedType")

\* the struct's fields left uncombined
structMerkleize_Skipped(hh, hashIndex) == hh

\* line 143: the struct's root
structMerkleize(hh, hashIndex) ==
    Merkleize(MerkleizeCall(hh, "Merkleize", "buildRootFromStruct", hashIndex, 0, 0),
              hashIndex)

\* a byte array packed like a byte list, without the early return
packUint8_ArrayAsList(hh, bytes, isArray) ==
    [hh |-> FillUpTo32(HasherAppend(hh, bytes)), itemSize |-> 1, done |-> FALSE]

\* lines 198-206: a sequence of uint8; done is the early return of an array
packUint8(hh, bytes, isArray) ==
    IF isArray
    THEN [hh |-> PutBytes(hh, bytes), itemSize |-> 0, done |-> TRUE]
    ELSE [hh |-> FillUpTo32(HasherAppend(hh, bytes)), itemSize |-> 1, done |-> FALSE]

\* lines 207-216: a sequence of uint64
RECURSIVE packUint64(_, _, _, _)
packUint64(hh, sourceValue, fieldIsPtr, i) ==
    IF i > Len(sourceValue.seq) THEN hh
    ELSE LET fieldValue == IF fieldIsPtr THEN ValueElem(sourceValue.seq[i])
                           ELSE sourceValue.seq[i]
         IN  IF IsZero(fieldValue) THEN Fail(hh, "panic")
             ELSE packUint64(AppendUint64(hh, fieldValue.int), sourceValue, fieldIsPtr, i + 1)

\* the capacity taken from the length instead of the maximum
sliceLimit_FromLen(maxSizeHints, sliceLen, itemSize) ==
    IF itemSize > 0 THEN calculateLimit(sliceLen, sliceLen, itemSize)
    ELSE maxSizeHints[1]

\* lines 220-225: the capacity of the sequence's tree
sliceLimit(maxSizeHints, sliceLen, itemSize) ==
    IF itemSize > 0 THEN calculateLimit(maxSizeHints[1], sliceLen, itemSize)
    ELSE maxSizeHints[1]

\* lines 219-229: the sequence's root
sliceMerkleize(hh, subIndex, maxSizeHints, sliceLen, itemSize) ==
    IF Len(maxSizeHints) > 0
    THEN LET limit == sliceLimit(maxSizeHints, sliceLen, itemSize)
         IN  MerkleizeWithMixin(
                MerkleizeCall(hh, "MerkleizeWithMixin", "buildRootFromSlice",
                              subIndex, sliceLen, limit),
                subIndex, sliceLen, limit)
    ELSE Merkleize(MerkleizeCall(hh, "Merkleize", "buildRootFromSlice", subIndex, 0, 0),
                   subIndex)

\* lines 175-194: the elements of a sequence of byte sequences
RECURSIVE packByteSeqs(_, _, _, _, _, _)
packByteSeqs(hh, fieldType, sourceValue, fieldIsPtr, maxSizeHints, i) ==
    IF i > Len(sourceValue.seq) THEN hh
    ELSE LET sliceSubIndex == Index(hh)
             fieldValue == IF fieldIsPtr THEN ValueElem(sourceValue.seq[i])
                           ELSE sourceValue.seq[i]
         IN  IF ~CanBytes(fieldType, fieldValue) THEN Fail(hh, "panic")
             ELSE LET fieldBytes == Bytes(fieldValue)
                      byteLen == Len(fieldBytes)
                      limit == (IF Len(maxSizeHints) > 1 THEN maxSizeHints[2] + 31 ELSE 0)
                                  \div 32
                      h1 == IF Len(maxSizeHints) > 1
                            THEN MerkleizeWithMixin(
                                    MerkleizeCall(AppendBytes32(hh, fieldBytes),
                                        "MerkleizeWithMixin", "buildRootFromSlice",
                                        sliceSubIndex, byteLen, limit),
                                    sliceSubIndex, byteLen, limit)
                            ELSE PutBytes(hh, fieldBytes)
                  IN  IF Ok(h1)
                      THEN packByteSeqs(h1, fieldType, sourceValue, fieldIsPtr,
                                        maxSizeHints, i + 1)
                      ELSE h1

RECURSIVE buildRootFromType(_, _, _, _, _, _)
RECURSIVE buildRootFromStruct(_, _, _, _)
RECURSIVE buildRootFromSlice(_, _, _, _, _, _)
RECURSIVE structFields(_, _, _, _, _)
RECURSIVE sliceStructs(_, _, _, _, _, _)

\* lines 12-104
buildRootFromType(d, sourceType0, sourceValue0, hh, sizeHints, maxSizeHints) ==
    LET hashIndex == Index(hh)
        isPtr == Kind(sourceType0) = "Ptr"
        sourceType == IF isPtr THEN Elem(sourceType0) ELSE sourceType0
        sourceValue == IF isPtr THEN ValueElem(sourceValue0) ELSE sourceValue0
        fastsszCompat == getFastsszHashCompatibility(sourceType, sizeHints, maxSizeHints)
        decided == useFastSszDecision(d, fastsszCompat, sourceType.name)
        h0 == Logged(hh, [op |-> "useFastSsz", name |-> sourceType.name,
                          kind |-> Kind(sourceType), compat |-> fastsszCompat,
                          useFastSsz |-> decided])
        fast == IF decided THEN fastPath(h0, sourceType, sourceValue, fastsszCompat)
                ELSE [hh |-> h0, useFastSsz |-> FALSE]
        h1 == fast.hh
        generic ==
            IF NameContainsBitlist(sourceType)
            THEN bitlistPath(h1, sourceType, sourceValue, maxSizeHints)
            ELSE LET h2 == Logged(h1, [op |-> "kind", kind |-> Kind(sourceType)])
                 IN  CASE Kind(sourceType) = "Struct" ->
                            buildRootFromStruct(d, sourceType, sourceValue, h2)
                       [] Kind(sourceType) = "Array" ->
                            buildRootFromSlice(d, sourceType, sourceValue, h2,
                                               maxSizeHints, TRUE)
                       [] Kind(sourceType) = "Slice" ->
                            buildRootFromSlice(d, sourceType, sourceValue, h2,
                                               maxSizeHints, FALSE)
                       [] Kind(sourceType) \in ScalarKinds ->
                            putScalar(h2, Kind(sourceType), sourceValue)
                       [] OTHER -> unknownType(h2)
    IN  Return("buildRootFromType", hh,
            IF fastsszCompat.err THEN Fail(hh, "CompatibilityCheckFailed")
            ELSE IF ~Ok(h1) \/ fast.useFastSsz THEN h1
            ELSE generic)

\* lines 114-142: the fields, in declared order
structFields(d, sourceType, sourceValue, hh, i) ==
    IF i > Len(sourceType.fields) THEN hh
    ELSE IF IsZero(sourceValue) THEN Fail(hh, "panic")     \* Field(i) of the zero Value
    ELSE LET field == sourceType.fields[i]
             fieldIsPtr == Kind(field.type) = "Ptr"
             fieldType == IF fieldIsPtr THEN Elem(field.type) ELSE field.type
             fieldValue == IF fieldIsPtr THEN ValueElem(sourceValue.seq[i])
                           ELSE sourceValue.seq[i]
             size == getSszFieldSize(field)
             max == getSszMaxSizeTag(field)
         IN  IF size.err \/ max.err THEN Fail(hh, "FieldTagError")
             ELSE LET h1 == buildRootFromType(d, fieldType, fieldValue, hh,
                                              size.sizeHints, max.maxSizeHints)
                  IN  IF Ok(h1) THEN structFields(d, sourceType, sourceValue, h1, i + 1)
                      ELSE h1

\* lines 106-146
buildRootFromStruct(d, sourceType0, sourceValue0, hh) ==
    LET hashIndex == Index(hh)
        isPtr == Kind(sourceType0) = "Ptr"
        sourceType == IF isPtr THEN Elem(sourceType0) ELSE sourceType0
        sourceValue == IF isPtr THEN ValueElem(sourceValue0) ELSE sourceValue0
        h1 == structFields(d, sourceType, sourceValue, hh, 1)
    IN  Return("buildRootFromStruct", hh,
            IF Ok(h1) THEN structMerkleize(h1, hashIndex) ELSE h1)

\* lines 161-171: the elements of a sequence of structs
sliceStructs(d, fieldType, sourceValue, fieldIsPtr, hh, i) ==
    IF i > Len(sourceValue.seq) THEN hh
    ELSE LET fieldValue == IF fieldIsPtr THEN ValueElem(sourceValue.seq[i])
                           ELSE sourceValue.seq[i]
             h1 == buildRootFromStruct(d, fieldType, fieldValue, hh)
         IN  IF Ok(h1) THEN sliceStructs(d, fieldType, sourceValue, fieldIsPtr, h1, i + 1)
             ELSE h1

\* lines 148-232
buildRootFromSlice(d, sourceType, sourceValue, hh, maxSizeHints, isArray) ==
    LET fieldIsPtr == Kind(Elem(sourceType)) = "Ptr"
        fieldType == IF fieldIsPtr THEN Elem(Elem(sourceType)) ELSE Elem(sourceType)
        subIndex == Index(hh)
        sliceLen == Len(sourceValue.seq)
        kind == Kind(fieldType)
        u8 == packUint8(hh, Bytes(sourceValue), isArray)
        packed ==
            CASE kind = "Struct" ->
                    [hh |-> sliceStructs(d, fieldType, sourceValue, fieldIsPtr, hh, 1),
                     itemSize |-> 0, done |-> FALSE]
              [] kind \in {"Array", "Slice"} ->
                    IF Elem(fieldType) = byteType
                    THEN [hh |-> packByteSeqs(hh, fieldType, sourceValue, fieldIsPtr,
                                              maxSizeHints, 1),
                          itemSize |-> 0, done |-> FALSE]
                    ELSE [hh |-> Fail(hh, "UnsupportedNesting"),
                          itemSize |-> 0, done |-> FALSE]
              [] kind = "Uint8" ->
                    IF ~CanBytes(sourceType, sourceValue)
                    THEN [hh |-> Fail(hh, "panic"), itemSize |-> 0, done |-> FALSE]
                    ELSE u8
              [] kind = "Uint64" ->
                    [hh |-> packUint64(hh, sourceValue, fieldIsPtr, 1),
                     itemSize |-> 8, done |-> FALSE]
              [] OTHER -> [hh |-> hh, itemSize |-> 0, done |-> FALSE]
    IN  Return("buildRootFromSlice", hh,
            IF IsZero(sourceValue) THEN Fail(hh, "panic")      \* Len() of the zero Value
            ELSE IF ~Ok(packed.hh) \/ packed.done THEN packed.hh
            ELSE sliceMerkleize(packed.hh, subIndex, maxSizeHints, sliceLen,
                                packed.itemSize))

\* ------------------------------------------------------------ the inputs
Small == StructOf("Small", <<Field(U8, <<>>)>>)
Empty == StructOf("Empty", <<>>)
\* uint256.Int is [4]uint64 with a HashTreeRoot method
IntT == Precompiled([ArrayOf(U64, 4) EXCEPT !.name = "Int"])
BitlistT == [SliceOf(U8) EXCEPT !.name = "Bitlist"]
MyBitlistT == [ArrayOf(U8, 1) EXCEPT !.name = "MyBitlist"]
Uint16Pair == [ArrayOf(U16, 2) EXCEPT !.name = "Uint16Pair"]
Scenario == StructOf("Scenario", <<Field(U8, <<>>), Field(SliceOf(U64), <<MaxHint>>)>>)
WithFloat == StructOf("WithFloat", <<Field(U8, <<>>), Field(F64, <<>>)>>)
Outer == StructOf("Outer", <<Field(Small, <<>>), Field(WithFloat, <<>>)>>)
WithPtr == StructOf("WithPtr", <<Field(PtrTo(U8), <<>>), Field(PtrTo(Empty), <<>>)>>)
WithInt == StructOf("WithInt", <<Field(BoolT, <<>>), Field(IntT, <<>>)>>)
WithU32s == StructOf("WithU32s", <<Field(SliceOf(U32), <<MaxHint>>)>>)
WithBytes == StructOf("WithBytes", <<Field(ArrayOf(U8, 2), <<>>),
                                     Field(BitlistT, <<8 * MaxHint>>)>>)
BadTag == StructOf("BadTag", <<Field(U8, <<>>), [Field(U8, <<>>) EXCEPT !.tagErr = TRUE]>>)

TopTypes ==
    {BoolT, U8, U16, U32, U64, F64, IntT, BitlistT, MyBitlistT,
     ArrayOf(U8, 1), ArrayOf(U8, 32), ArrayOf(U8, 33), SliceOf(U8),
     ArrayOf(U64, 1), SliceOf(U64), SliceOf(PtrTo(U64)), SliceOf(U32), Uint16Pair,
     SliceOf(F64), SliceOf(Small), SliceOf(PtrTo(Small)), ArrayOf(Small, 2),
     SliceOf(ArrayOf(U8, 1)), SliceOf(SliceOf(U8)), SliceOf(SliceOf(U64)),
     Small, Empty, Scenario, WithFloat, Outer, WithPtr, WithInt, WithU32s, WithBytes,
     BadTag, PtrTo(U8), PtrTo(Empty), PtrTo(Small), PtrTo(F64), PtrTo(PtrTo(U8))}

ByteSeqs(lens) == {SeqV([i \in 1..n |-> IntV(b)]) : n \in lens, b \in 0..MaxVal}
\* slices that are elements of a sequence hold at most one element; byte
\* slices are empty, one byte or two chunks long
ElemByteSeqs == {SeqV([i \in 1..n |-> IntV(MaxVal)]) : n \in {0, 1, 33}}
RECURSIVE Values(_)
RECURSIVE FieldValues(_, _)
RECURSIVE ElemValues(_)
\* the tuples of values of the fields from the i-th on
FieldValues(fields, i) ==
    IF i > Len(fields) THEN {<<>>}
    ELSE {<<v>> \o rest : v \in Values(fields[i].type), rest \in FieldValues(fields, i + 1)}
ElemValues(t) ==
    IF Kind(t) = "Slice" /\ Elem(t) = byteType THEN ElemByteSeqs
    ELSE IF Kind(t) = "Slice"
    THEN UNION {{SeqV(s) : s \in [1..n -> Values(Elem(t))]} : n \in 0..1}
    ELSE Values(t)
Values(t) ==
    CASE Kind(t) = "Ptr" -> {NilPtr} \cup {PtrV(v) : v \in Values(Elem(t))}
      [] Kind(t) = "Struct" -> {SeqV(s) : s \in FieldValues(t.fields, 1)}
      [] Kind(t) = "Array" /\ Elem(t) = byteType -> ByteSeqs({t.len})
      [] Kind(t) = "Slice" /\ Elem(t) = byteType -> ByteSeqs((0..MaxSeqLen) \cup {33})
      [] Kind(t) = "Array" -> {SeqV(s) : s \in [1..t.len -> ElemValues(Elem(t))]}
      [] Kind(t) = "Slice" ->
            UNION {{SeqV(s) : s \in [1..n -> ElemValues(Elem(t))]} : n \in 0..MaxSeqLen}
      [] Kind(t) = "Bool" -> {IntV(0), IntV(1)}
      [] OTHER -> {IntV(n) : n \in 0..MaxVal}

\* the verdicts of the oracle and the capability of the top-level type
Verdicts ==
    {[isHashRoot |-> a, hasDynamicSpecSizes |-> b, hasDynamicSpecMax |-> c, err |-> e] :
        a \in BOOLEAN, b \in BOOLEAN, c \in BOOLEAN, e \in {FALSE}}
        \cup {[NoCompat EXCEPT !.err = TRUE]}
Profiles ==
    {p \in [compat : Verdicts, hashRoot : {"none", "ok", "fail"}] :
        (~p.compat.isHashRoot \/ p.compat.err) => p.hashRoot = "none"}
\* the pointee carries the verdict: the oracle is asked after the dereference
RECURSIVE WithProfile(_, _)
WithProfile(t, p) ==
    IF Kind(t) = "Ptr" THEN [t EXCEPT !.elem = WithProfile(Elem(t), p)]
    ELSE [t EXCEPT !.compat = p.compat, !.hashRoot = p.hashRoot]
TopHints ==
    {<<>>} \cup {<<m>> : m \in 0..MaxHint} \cup {<<MaxHint, 32 * m>> : m \in 1..MaxHint}

\* ------------------------------------------------------- the state machine
VARIABLES d,    \* the DynSsz configuration
          in,   \* the arguments of the top-level buildRootFromType call
          hh,   \* the Hasher
          pc    \* "ready" before the call, "done" after it
vars == <<d, in, hh, pc>>

Init ==
    /\ d \in [NoFastSsz : BOOLEAN]
    /\ \E t \in TopTypes, p \in Profiles, mh \in TopHints :
          \E v \in Values(t) :
            in = [type |-> WithProfile(t, p), value |-> v,
                  sizeHints |-> <<>>, maxSizeHints |-> mh]
    /\ hh = NewHasher
    /\ pc = "ready"

\* the top-level call of the traversal
HashTreeRootCall ==
    /\ pc = "ready"
    /\ hh' = buildRootFromType(d, in.type, in.value, hh, in.sizeHints, in.maxSizeHints)
    /\ pc' = "done"
    /\ UNCHANGED <<d, in>>

Next == HashTreeRootCall
Spec == Init /\ [][Next]_vars

\* ------------------------------------------------------------ properties
\* the type and value of the top-level call after the dereference of line 15
TopType == IF Kind(in.type) = "Ptr" THEN Elem(in.type) ELSE in.type
TopValue == IF Kind(in.type) = "Ptr" THEN ValueElem(in.value) ELSE in.value
TopDecision ==
    /\ ~TopType.compat.err
    /\ useFastSszDecision(d, TopType.compat, TopType.name)
\* the top-level call takes the generic path for a reason other than a demotion
TopGeneric == ~TopType.compat.err /\ ~TopDecision
Events(op) == {i \in DOMAIN hh.calls : hh.calls[i].op = op}
MerkleizeEvents == Events("Merkleize") \cup Events("MerkleizeWithMixin")
GoodVerdict(c) == c.isHashRoot /\ ~c.hasDynamicSpecSizes /\ ~c.hasDynamicSpecMax
SupportedKinds == ScalarKinds \cup {"Struct", "Array", "Slice"}
\* the same call with the top-level type stripped of its precompiled routine
GenericRun ==
    buildRootFromType(d, WithProfile(in.type, [compat |-> NoCompat, hashRoot |-> "none"]),
                      in.value, NewHasher, in.sizeHints, in.maxSizeHints)
\* the same call with the fast path disabled
NoFastSszRun ==
    buildRootFromType([NoFastSsz |-> TRUE], in.type, in.value, NewHasher,
                      in.sizeHints, in.maxSizeHints)

\* the top-level call is the generic traversal of a densely packed sequence
\* (uint8 list, uint64 list or array) that carries an outer max-size hint
PackedTop ==
    /\ pc = "done" /\ TopGeneric /\ ~NameContainsBitlist(TopType)
    /\ Len(in.maxSizeHints) > 0
    /\ \/ Kind(TopType) = "Slice" /\ Elem(TopType) = byteType
       \/ Kind(TopType) \in {"Slice", "Array"} /\ Elem(TopType) \in {U64, PtrTo(U64)}
PackedSize == IF Elem(TopType) = byteType THEN 1 ELSE 8

TypeOK == pc \in {"ready", "done"}

C2_FastGenericEquivalence ==
    (/\ pc = "done" /\ ~d.NoFastSsz
     /\ TopType.compat = FastCompat /\ TopType.hashRoot = "ok"
     /\ in.maxSizeHints = <<>>
     /\ ValidSsz(in.type, in.value, <<>>))
        => /\ hh.err = "nil"
           /\ NoFastSszRun.err = "nil"
           /\ NoFastSszRun.chunks = hh.chunks

\* C3: HashTreeRoot of the precompiled routine is invoked only under a verdict
\* with isHashRoot and neither dynamic flag, also for the type named "Int";
\* under any other verdict the decision is the generic traversal.
C3_FastOnlyWhenCompatible ==
    /\ \A i \in Events("HashTreeRoot") : GoodVerdict(hh.calls[i].compat)
    /\ \A i \in Events("useFastSsz") :
          hh.calls[i].useFastSsz => GoodVerdict(hh.calls[i].compat)
\* the routine of an "Int" was invoked with the fast path disabled
C3_Witness ==
    /\ pc = "done" /\ d.NoFastSsz
    /\ \E i \in Events("HashTreeRoot") : hh.calls[i].name = "Int"

\* C4 as stated: for the type named "Int" the decision is the fast path for
\* every value of NoFastSsz and every verdict.
C4_IntAlwaysFast ==
    \A i \in Events("useFastSsz") :
        hh.calls[i].name = "Int" => hh.calls[i].useFastSsz
\* C4 amended: for the type named "Int" the decision is the fast path for
\* every value of NoFastSsz, provided the verdict has isHashRoot and neither
\* dynamic flag.
C4_IntFastWhenCompatible ==
    \A i \in Events("useFastSsz") :
        (hh.calls[i].name = "Int" /\ GoodVerdict(hh.calls[i].compat))
            => hh.calls[i].useFastSsz
\* the decision for an "Int" was the fast path although NoFastSsz is set
C4_Witness ==
    /\ pc = "done" /\ d.NoFastSsz
    /\ \E i \in Events("useFastSsz") :
          hh.calls[i].name = "Int" /\ hh.calls[i].useFastSsz

\* C5: a nil pointer given to buildRootFromType ends the traversal with a
\* NilValue error.
C5_NilValueError ==
    (pc = "done" /\ Kind(in.type) = "Ptr" /\ IsNilPtr(in.value) /\ ~TopType.compat.err)
        => hh.err = "NilValue"

\* C6 as stated: when the kind switch meets an unsupported kind the traversal
\* returns UnsupportedType and the buffer is what it was when the top-level
\* traversal started.
C6_NoChunkAppended ==
    (pc = "done" /\ \E i \in Events("kind") : hh.calls[i].kind \notin SupportedKinds)
        => /\ hh.err = "UnsupportedType"
           /\ hh.chunks = <<>> /\ hh.tail = <<>>
\* C6 amended: when the kind switch meets an unsupported kind the traversal
\* returns UnsupportedType, the invocation that met it appends nothing, and the
\* buffer is left as that invocation found it: the chunks of the supported
\* fields that precede it remain.
C6_NoChunkForUnsupported ==
    \A i \in Events("kind") :
        hh.calls[i].kind \notin SupportedKinds =>
            LET r == hh.calls[i + 1]
            IN  /\ hh.err = "UnsupportedType"
                /\ r.op = "return" /\ r.fn = "buildRootFromType"
                /\ r.err = "UnsupportedType"
                /\ r.post = r.pre /\ r.postTail = r.preTail
                /\ hh.chunks = r.pre /\ hh.tail = r.preTail
\* an unsupported field was met after a supported one had appended its chunk
C6_Witness ==
    /\ pc = "done" /\ hh.err = "UnsupportedType"
    /\ \E i \in Events("kind") : hh.calls[i].kind = "Float64"
    /\ hh.chunks # <<>>

\* C7 as stated: a fast-path decision on a value without the capability
\* returns no error and leaves the chunk of the generic path; a capability
\* that reports a failure returns an error without falling back.
C7_DemotionNeverFails ==
    /\ (pc = "done" /\ TopDecision /\ TopType.hashRoot = "none" /\ ~IsZero(TopValue))
          => /\ hh.err = "nil"
             /\ hh.chunks = GenericRun.chunks
    /\ (pc = "done" /\ TopDecision /\ TopType.hashRoot = "fail" /\ ~IsZero(TopValue))
          => /\ hh.err = "PrecompiledHashFailed"
             /\ Events("kind") = {} /\ hh.chunks = <<>>
\* C7 amended: a fast-path decision on a non-nil value without the capability
\* returns what the generic path returns for the same arguments, the same
\* chunk or the same error, so no error unless the generic path has one; a
\* capability that reports a failure returns an error without falling back.
C7_DemotionEqualsGeneric ==
    /\ (pc = "done" /\ TopDecision /\ TopType.hashRoot = "none" /\ ~IsZero(TopValue))
          => /\ hh.err = GenericRun.err
             /\ hh.chunks = GenericRun.chunks
             /\ hh.tail = GenericRun.tail
    /\ (pc = "done" /\ TopDecision /\ TopType.hashRoot = "fail" /\ ~IsZero(TopValue))
          => /\ hh.err = "PrecompiledHashFailed"
             /\ Events("kind") = {} /\ hh.chunks = <<>>
\* a struct was demoted and hashed by the generic path
C7_Witness ==
    /\ pc = "done" /\ TopDecision /\ TopType.hashRoot = "none"
    /\ Kind(TopType) = "Struct"
    /\ hh.err = "nil" /\ Len(hh.chunks) = 1
    /\ Events("kind") # {}

\* C8: on the generic path the root of a fixed-size byte array is PutBytes of
\* its bytes, with no Merkleize or MerkleizeWithMixin by buildRootFromSlice,
\* whatever maxSizeHints holds.
C8_ByteArrayRoot ==
    (/\ pc = "done" /\ TopGeneric
     /\ Kind(TopType) = "Array" /\ Elem(TopType) = byteType
     /\ ~NameContainsBitlist(TopType))
        => /\ hh.err = "nil"
           /\ hh.chunks = PutBytes(NewHasher, Bytes(TopValue)).chunks
           /\ hh.tail = <<>>
           /\ MerkleizeEvents = {}
\* a byte array longer than a chunk was hashed under two dimensions of hints
C8_Witness ==
    /\ pc = "done" /\ TopGeneric
    /\ Kind(TopType) = "Array" /\ Elem(TopType) = byteType
    /\ Len(in.value.seq) = 33 /\ Len(in.maxSizeHints) = 2
    /\ hh.err = "nil" /\ Len(hh.chunks) = 1

\* C9: for a sequence of uint8 or uint64 with an outer max-size hint M the
\* capacity given to MerkleizeWithMixin is ceil(M * elementByteSize / 32)
\* whatever the length N, and the length operand is N.
C9_CapacityFromMax ==
    PackedTop =>
        /\ \A i \in Events("MerkleizeWithMixin") :
              /\ hh.calls[i].limit = (in.maxSizeHints[1] * PackedSize + 31) \div 32
              /\ hh.calls[i].num = Len(TopValue.seq)
        /\ hh.err = "nil" => Cardinality(Events("MerkleizeWithMixin")) = 1
\* a list shorter than its maximum, and a maximum of zero
C9_Witness ==
    /\ PackedTop
    /\ Cardinality(Events("MerkleizeWithMixin")) = 1
    /\ Len(TopValue.seq) < in.maxSizeHints[1]
    /\ Elem(TopType) = U64

\* C10: whenever buildRootFromSlice or buildRootFromStruct calls Merkleize or
\* MerkleizeWithMixin, the bytes appended since the marked index are a whole
\* number of 32-byte chunks.
C10_WholeChunks ==
    \A i \in MerkleizeEvents : hh.calls[i].avail % 32 = 0
====
